---- MODULE Spec2Model ----
(***************************************************************************)
(* A model of the Notion XP widget (src/app.py): a Flask application with  *)
(* two routes, a module-level cache of the records of a Notion database,   *)
(* a paginated fetch of that database, the aggregation of the XP property  *)
(* and the level / progress computation.                                    *)
(*                                                                         *)
(* Requests are handled by worker threads that share the module-level      *)
(* _cache dictionary.  Every read and every write of a field of _cache is  *)
(* one step of a worker, so that all interleavings the interpreter may     *)
(* produce are covered.  Program counters are named after source lines.    *)
(***************************************************************************)
EXTENDS Integers, Sequences, FiniteSets, TLC

\* ------------------------------------------------------------------
\* Bounds of the model
\* ------------------------------------------------------------------
MaxClock   == 1   \* time.time() ranges over 0..MaxClock
MaxPosts   == 2   \* pages the upstream serves to one fetch
MaxRecords == 2   \* length of the record collections given to the aggregator
MaxTotal   == 12  \* largest total given to the level computation
MaxLevelXp == 6   \* largest LEVEL_XP given to the level computation
MaxPow     == 54  \* largest power of two given to the level computation

Workers == {"w1", "w2"}

\* ------------------------------------------------------------------
\* JSON values as the code inspects them
\* ------------------------------------------------------------------
\* A scalar found under "number": absent key, null, an integer, or a
\* non-empty string (a value of unexpected type).
JAbsent     == [tag |-> "absent", n |-> 0]
JNull       == [tag |-> "null",   n |-> 0]
JStr        == [tag |-> "str",    n |-> 0]
JInt(k)     == [tag |-> "int",    n |-> k]

\* One record (page) of the database, described by the keys the code looks
\* at.  props, xp and formula are "absent" (no such key), "null", "obj" (a
\* mapping) or "str" (a non-mapping value); type is the discriminator of the
\* XP property.
Rec(p, x, t, num, f, fnum) ==
    [props |-> p, xp |-> x, type |-> t, number |-> num, formula |-> f, fnumber |-> fnum]

RecNumber(k)     == Rec("obj", "obj", "number",  JInt(k), "absent", JAbsent)
RecNumberNull    == Rec("obj", "obj", "number",  JNull,   "absent", JAbsent)
RecNumberStr     == Rec("obj", "obj", "number",  JStr,    "absent", JAbsent)
RecFormula(k)    == Rec("obj", "obj", "formula", JAbsent, "obj",    JInt(k))
RecFormulaNull   == Rec("obj", "obj", "formula", JAbsent, "null",   JAbsent)
RecFormulaNoNum  == Rec("obj", "obj", "formula", JAbsent, "obj",    JNull)
RecFormulaStr    == Rec("obj", "obj", "formula", JAbsent, "str",    JAbsent)
RecOtherType     == Rec("obj", "obj", "other",   JInt(5), "absent", JAbsent)
RecNoXp          == Rec("obj", "absent", "absent", JAbsent, "absent", JAbsent)
RecNoProps       == Rec("absent", "absent", "absent", JAbsent, "absent", JAbsent)
RecPropsNull     == Rec("null", "absent", "absent", JAbsent, "absent", JAbsent)
RecXpNull        == Rec("obj", "null", "absent", JAbsent, "absent", JAbsent)
RecXpStr         == Rec("obj", "str", "absent", JAbsent, "absent", JAbsent)

\* ------------------------------------------------------------------
\* Aggregation, lines 52-63
\* ------------------------------------------------------------------
\* Python's  x or 0  on a scalar: null, an absent key (None) and 0 give 0.
OrZero(v) ==
    IF v.tag = "int" /\ v.n # 0 THEN v
    ELSE IF v.tag = "str" THEN v
    ELSE JInt(0)

\* XpVal with the formula branch (lines 60-62) forgotten.
XpVal_NumberOnly(page) ==
    IF page.props \in {"null", "str"}
    THEN [raised |-> "AttributeError", val |-> JInt(0)]
    ELSE LET xp == IF page.props = "absent" THEN "absent" ELSE page.xp IN
         IF xp \in {"null", "str"}
         THEN [raised |-> "AttributeError", val |-> JInt(0)]
         ELSE LET t == IF xp = "absent" THEN "absent" ELSE page.type IN
              IF t = "number"
              THEN [raised |-> "none", val |-> OrZero(page.number)]
              ELSE [raised |-> "none", val |-> JInt(0)]

\* Lines 54-62 for one record: the value of xp_val, or the exception raised.
XpVal(page) ==
    IF page.props \in {"null", "str"}
    THEN [raised |-> "AttributeError", val |-> JInt(0)]   \* props.get on a non-mapping
    ELSE LET xp == IF page.props = "absent" THEN "absent" ELSE page.xp IN
         IF xp \in {"null", "str"}
         THEN [raised |-> "AttributeError", val |-> JInt(0)]   \* xp_prop.get on a non-mapping
         ELSE LET t == IF xp = "absent" THEN "absent" ELSE page.type IN
              IF t = "number"
              THEN [raised |-> "none", val |-> OrZero(page.number)]
              ELSE IF t = "formula"
              THEN IF page.formula = "str"
                   THEN [raised |-> "AttributeError", val |-> JInt(0)]
                   ELSE IF page.formula = "obj"
                        THEN [raised |-> "none", val |-> OrZero(page.fnumber)]
                        ELSE [raised |-> "none", val |-> JInt(0)]
              ELSE [raised |-> "none", val |-> JInt(0)]

\* One iteration of the loop of line 53, line 63 included: xp_tot += xp_val
\* raises TypeError when xp_val is a string.
AddXp(xp_tot, page) ==
    LET v == XpVal(page) IN
    IF v.raised # "none" THEN [raised |-> v.raised, xp_tot |-> xp_tot]
    ELSE IF v.val.tag = "str" THEN [raised |-> "TypeError", xp_tot |-> xp_tot]
    ELSE [raised |-> "none", xp_tot |-> xp_tot + v.val.n]

RECURSIVE SumLoop(_, _, _)
SumLoop(results, i, xp_tot) ==
    IF i > Len(results) THEN [raised |-> "none", xp_tot |-> xp_tot]
    ELSE LET s == AddXp(xp_tot, results[i]) IN
         IF s.raised # "none" THEN s ELSE SumLoop(results, i + 1, s.xp_tot)

\* Lines 52-63 as a whole.
SumXp(results) == SumLoop(results, 1, 0)

\* ------------------------------------------------------------------
\* Python integers of any size and IEEE 754 doubles
\* ------------------------------------------------------------------
\* Python integers have no upper limit.  A natural number is the sequence of
\* its digits in base Limb, the least significant first, without a leading
\* zero digit; <<>> is 0.
LimbBits == 28
Limb     == 2^LimbBits

RECURSIVE NatOf(_)
NatOf(n) == IF n = 0 THEN <<>> ELSE <<n % Limb>> \o NatOf(n \div Limb)

RECURSIVE NatTrim(_)
NatTrim(a) ==
    IF a = <<>> THEN a
    ELSE IF a[Len(a)] = 0 THEN NatTrim(SubSeq(a, 1, Len(a) - 1)) ELSE a

NatDigit(a, i) == IF i <= Len(a) THEN a[i] ELSE 0

RECURSIVE NatGeqFrom(_, _, _)
NatGeqFrom(a, b, i) ==
    IF i = 0 THEN TRUE
    ELSE IF a[i] # b[i] THEN a[i] > b[i]
    ELSE NatGeqFrom(a, b, i - 1)

NatGeq(a, b) ==
    IF Len(a) # Len(b) THEN Len(a) > Len(b) ELSE NatGeqFrom(a, b, Len(a))

RECURSIVE NatAddFrom(_, _, _, _)
NatAddFrom(a, b, i, carry) ==
    IF i > Len(a) /\ i > Len(b)
    THEN IF carry = 1 THEN <<1>> ELSE <<>>
    ELSE LET s == NatDigit(a, i) + NatDigit(b, i) + carry IN
         <<s % Limb>> \o NatAddFrom(a, b, i + 1, s \div Limb)

NatAdd(a, b) == NatAddFrom(a, b, 1, 0)

RECURSIVE NatSubFrom(_, _, _, _)
NatSubFrom(a, b, i, borrow) ==
    IF i > Len(a) THEN <<>>
    ELSE LET d == a[i] - NatDigit(b, i) - borrow IN
         <<d % Limb>> \o NatSubFrom(a, b, i + 1, IF d < 0 THEN 1 ELSE 0)

\* a - b for a >= b.
NatSub(a, b) == NatTrim(NatSubFrom(a, b, 1, 0))

NatOdd(a) == a # <<>> /\ a[1] % 2 = 1

NatDbl(a) == NatAdd(a, a)

\* a // 2
NatHalf(a) ==
    NatTrim([i \in 1..Len(a) |->
                (a[i] \div 2) + (IF NatDigit(a, i + 1) % 2 = 1 THEN Limb \div 2 ELSE 0)])

\* a * 2^k
RECURSIVE NatShl(_, _)
NatShl(a, k) == IF k = 0 \/ a = <<>> THEN a ELSE NatShl(NatDbl(a), k - 1)

\* Binary digit i of a, counted from 1 at the least significant end.
NatBit(a, i) == (a[((i - 1) \div LimbBits) + 1] \div 2^((i - 1) % LimbBits)) % 2

\* Schoolbook division in base 2: qr is the quotient and the remainder of
\* the digits of a above digit i.
RECURSIVE NatDivFrom(_, _, _, _)
NatDivFrom(a, b, i, qr) ==
    IF i = 0 THEN qr
    ELSE LET r == NatAdd(NatDbl(qr.r), IF NatBit(a, i) = 1 THEN <<1>> ELSE <<>>) IN
         IF NatGeq(r, b)
         THEN NatDivFrom(a, b, i - 1, [q |-> NatAdd(NatDbl(qr.q), <<1>>), r |-> NatSub(r, b)])
         ELSE NatDivFrom(a, b, i - 1, [q |-> NatDbl(qr.q), r |-> r])

\* Quotient and remainder of a by b > 0.
NatDivMod(a, b) == NatDivFrom(a, b, LimbBits * Len(a), [q |-> <<>>, r |-> <<>>])

\* A double other than an infinity or a NaN is (-1)^neg * m * 2^e; it is
\* kept with m odd, or with m = 0 and e = 0.  The exponents of the doubles
\* met here stay far from the ends of the exponent range.
FloatBits == 53
FloatTop  == NatShl(<<1>>, FloatBits)

FloatZero == [neg |-> FALSE, m |-> <<>>, e |-> 0]

RECURSIVE FloatOdd(_, _)
FloatOdd(m, e) ==
    IF m = <<>> THEN FloatZero
    ELSE IF NatOdd(m) THEN [neg |-> FALSE, m |-> m, e |-> e]
    ELSE FloatOdd(NatHalf(m), e + 1)

\* The double nearest to the real number x with n * 2^e <= x < (n+1) * 2^e,
\* ties going to the even significand: half says that the digit dropped
\* last was 1, sticky that x is above what n and half say.
RECURSIVE FloatRound(_, _, _, _)
FloatRound(n, e, half, sticky) ==
    IF NatGeq(n, FloatTop)
    THEN FloatRound(NatHalf(n), e + 1, NatOdd(n), sticky \/ half)
    ELSE IF half /\ (sticky \/ NatOdd(n))
         THEN FloatOdd(NatAdd(n, <<1>>), e)
         ELSE FloatOdd(n, e)

\* The least k with a * 2^k >= b.
RECURSIVE FloatScale(_, _, _)
FloatScale(a, b, k) ==
    IF NatGeq(a, b) THEN [a |-> a, k |-> k] ELSE FloatScale(NatDbl(a), b, k + 1)

\* The binary digits of r / b after the point, r < b, appended to q until
\* q has FloatBits + 1 digits or the division comes out even; n counts the
\* digits still to come.
RECURSIVE FloatDigits(_, _, _, _)
FloatDigits(r, b, q, n) ==
    IF NatGeq(q, FloatTop) \/ r = <<>> THEN [q |-> q, n |-> n, r |-> r]
    ELSE LET r2 == NatDbl(r) IN
         IF NatGeq(r2, b)
         THEN FloatDigits(NatSub(r2, b), b, NatAdd(NatDbl(q), <<1>>), n - 1)
         ELSE FloatDigits(r2, b, NatDbl(q), n - 1)

\* int / int for 0 < a < b: the quotient correctly rounded, as CPython's
\* true division of integers gives it.
FloatDiv(a, b) ==
    LET s == FloatScale(a, b, 0)
        d == FloatDigits(NatSub(s.a, b), b, <<1>>, FloatBits)
    IN FloatRound(d.q, d.n - s.k - FloatBits, FALSE, d.r # <<>>)

\* x * 100.0: the exact product, rounded.
FloatMul100(x) ==
    LET m4 == NatShl(x.m, 2) m32 == NatShl(x.m, 5) m64 == NatShl(x.m, 6) IN
    FloatRound(NatAdd(m64, NatAdd(m32, m4)), x.e, FALSE, FALSE)

\* x >= n for a double x >= 0 and a natural number n.
FloatGeq(x, n) ==
    IF x.e >= 0 THEN NatGeq(NatShl(x.m, x.e), n) ELSE NatGeq(x.m, NatShl(n, 0 - x.e))

\* ------------------------------------------------------------------
\* Level computation, lines 65-67
\* ------------------------------------------------------------------
\* Python's // and % on integers: the quotient is rounded towards minus
\* infinity and the remainder has the sign of the divisor.
PyFloorDiv(a, b) == IF b > 0 THEN a \div b ELSE (0 - a) \div (0 - b)
PyMod(a, b)      == a - b * PyFloorDiv(a, b)

Abs(n) == IF n < 0 THEN 0 - n ELSE n

\* Line 67, (reste / LEVEL_XP) * 100.0, on the magnitudes of the two
\* integers: reste has the sign of LEVEL_XP and is the smaller of the two, so
\* the quotient is a double in [0, 1], and so is 0 / LEVEL_XP.
FloatProgress(reste, level_xp) ==
    IF reste = <<>> THEN FloatZero ELSE FloatMul100(FloatDiv(reste, level_xp))

\* Line 67 for every divisor up to MaxLevelXp and every remainder below it,
\* computed once.
ProgressTable ==
    [p \in 1..MaxLevelXp |-> [r \in 0..(p - 1) |-> FloatProgress(NatOf(r), NatOf(p))]]

\* Line 67 on the magnitudes of two integers of machine size.
Progress(reste, level_xp) ==
    IF level_xp \in DOMAIN ProgressTable
    THEN ProgressTable[level_xp][reste]
    ELSE FloatProgress(NatOf(reste), NatOf(level_xp))

\* LevelProgress with levels counted from 1.
LevelProgress_FromOne(xp_tot, level_xp) ==
    IF level_xp = 0
    THEN [raised |-> "ZeroDivisionError", level |-> 0, reste |-> 0, progress |-> FloatZero]
    ELSE LET level == PyFloorDiv(xp_tot, level_xp) + 1
             reste == PyMod(xp_tot, level_xp)
         IN [raised |-> "none", level |-> level, reste |-> reste,
             progress |-> [Progress(Abs(reste), Abs(level_xp))
                              EXCEPT !.neg = (reste = 0 /\ level_xp < 0)]]

\* Lines 65-67 on integers of machine size: line 65 raises ZeroDivisionError
\* when LEVEL_XP is 0; progress is the double line 67 computes, and
\* 0 / LEVEL_XP is -0.0 for a negative LEVEL_XP.
LevelProgress(xp_tot, level_xp) ==
    IF level_xp = 0
    THEN [raised |-> "ZeroDivisionError", level |-> 0, reste |-> 0, progress |-> FloatZero]
    ELSE LET level == PyFloorDiv(xp_tot, level_xp)
             reste == PyMod(xp_tot, level_xp)
         IN [raised |-> "none", level |-> level, reste |-> reste,
             progress |-> [Progress(Abs(reste), Abs(level_xp))
                              EXCEPT !.neg = (reste = 0 /\ level_xp < 0)]]

\* Lines 65-67 on natural numbers of any size.
LevelProgressNat(xp_tot, level_xp) ==
    IF level_xp = <<>>
    THEN [raised |-> "ZeroDivisionError", level |-> <<>>, reste |-> <<>>, progress |-> FloatZero]
    ELSE LET d == NatDivMod(xp_tot, level_xp) IN
         [raised |-> "none", level |-> d.q, reste |-> d.r,
          progress |-> FloatProgress(d.r, level_xp)]

\* ------------------------------------------------------------------
\* The server: configuration, cache, workers
\* ------------------------------------------------------------------
VARIABLES
    proc,           \* "loading" (module being imported), "failed", "serving"
    NOTION_TOKEN,   \* line 7
    DATABASE_ID,    \* line 8
    LEVEL_XP,       \* line 9
    CACHE_TTL,      \* line 10
    threads,        \* the worker threads of the HTTP server
    database,       \* the result arrays the upstream may serve in one response
    faults,         \* the exceptions a request to the upstream may end with
    clock,          \* the value time.time() returns
    cache,          \* _cache, line 24: [ts, payload]
    born,           \* history: the time (now) of the request whose fetch produced
                    \* the records in _cache
    pc,             \* per worker: the line it is about to execute
    now,            \* per worker: local now of compute_xp_level_progress
    results,        \* per worker: local results of compute_xp_level_progress
    fetch_results,  \* per worker: local results of fetch_all_pages
    start_cursor,   \* per worker: payload["start_cursor"] of fetch_all_pages
    posts,          \* per worker: requests.post calls made by this request
    fetchCalls,     \* per worker: calls of fetch_all_pages made by this request
    resp,           \* per worker: the response of the last request
    calc,           \* input and output of the level computation checked alone
    agg,            \* state of the aggregation loop checked alone
    fetch,          \* locals of fetch_all_pages checked alone
    wire,           \* history: the POSTs of that fetch, cursor sent and response
    upstream        \* how the upstream answers that fetch

config   == <<NOTION_TOKEN, DATABASE_ID, LEVEL_XP, CACHE_TTL>>
shared   == <<cache, born>>
locals   == <<now, results, fetch_results, start_cursor, posts, fetchCalls>>
fetching == <<fetch, wire, upstream>>
pure     == <<calc, agg, fetching>>
env      == <<threads, database, faults>>
vars     == <<proc, config, env, clock, shared, pc, locals, resp, pure>>

TokenValues    == {"", "secret"}
DatabaseValues == {"", "db"}
LevelXpValues  == {0, 2}
CacheTtlValues == {1}

NoCursor == "none"
Cursors  == {"c1"}

\* The exceptions requests.post raises at line 31, by class: the hierarchy
\* of requests.exceptions under RequestException, HTTPError (line 32) and
\* JSONDecodeError (line 33) apart.  "Exception" stands for a class outside
\* that hierarchy that an adapter or the operating system lets through; line
\* 78 catches it like the others.
PostFaults ==
    {"RequestException", "ConnectionError", "ProxyError", "SSLError",
     "Timeout", "ConnectTimeout", "ReadTimeout", "TooManyRedirects",
     "ChunkedEncodingError", "ContentDecodingError", "StreamConsumedError",
     "RetryError", "UnrewindableBodyError", "InvalidJSONError",
     "URLRequired", "MissingSchema", "InvalidSchema", "InvalidURL",
     "InvalidHeader", "InvalidProxyURL", "Exception"}

\* The exceptions lines 31-34 raise, by class: those of requests.post,
\* HTTPError from raise_for_status on a status of 400 or more (line 32),
\* JSONDecodeError from res.json() on a body that is not JSON (line 33),
\* AttributeError from data.get on a JSON body that is not an object and
\* TypeError from results.extend on a "results" that is not a list (line 34).
FetchFaults ==
    PostFaults \cup {"HTTPError", "JSONDecodeError", "AttributeError", "TypeError"}

\* _cache["payload"] is None or a list.
NonePayload   == [isNone |-> TRUE,  list |-> <<>>]
ListPayload(l) == [isNone |-> FALSE, list |-> l]

\* Truth value of _cache["payload"]: None and the empty list are false.
Truthy(payload) == ~payload.isNone /\ Len(payload.list) > 0

\* Fresh with the comparison reversed.
Fresh_Reversed(t, ts, ttl) == t - ts > ttl

\* Fresh with the boundary included.
Fresh_Inclusive(t, ts, ttl) == t - ts <= ttl

\* Line 44, right operand.
Fresh(t, ts, ttl) == t - ts < ttl

NoResponse ==
    [status |-> 0, body |-> "none", msg |-> "none",
     xp_tot |-> 0, level |-> 0, progress |-> FloatZero, cache_control |-> {}]

\* Lines 80-89: the error page, status 500, Cache-Control: no-store.
ErrorResponse(e) ==
    [status |-> 500, body |-> "error", msg |-> e,
     xp_tot |-> 0, level |-> 0, progress |-> FloatZero, cache_control |-> {"no-store"}]

\* Lines 93-165: the widget page, status 200.
WidgetResponse(xp_tot, lp) ==
    [status |-> 200, body |-> "widget", msg |-> "none",
     xp_tot |-> xp_tot, level |-> lp.level, progress |-> lp.progress,
     cache_control |-> {"no-cache", "no-store", "must-revalidate", "max-age=0"}]

\* Health that looks at the cache first and reports its absence.
HealthResponse_NeedsCache(payload) ==
    [status |-> IF payload.isNone THEN 503 ELSE 200, body |-> "ok", msg |-> "none",
     xp_tot |-> 0, level |-> 0, progress |-> FloatZero, cache_control |-> {}]

\* Lines 70-72: the fixed payload {"ok": true}, status 200.  The cache is
\* handed over to show that the route does not look at it.
HealthResponse(payload) ==
    [status |-> 200, body |-> "ok", msg |-> "none",
     xp_tot |-> 0, level |-> 0, progress |-> FloatZero, cache_control |-> {}]

\* Render with the level computation outside the try block: its exception
\* is not turned into the error page.
Render_Uncaught(res, level_xp) ==
    LET s == SumXp(res) IN
    IF s.raised # "none" THEN ErrorResponse(s.raised)
    ELSE LET lp == LevelProgress(s.xp_tot, level_xp) IN
         IF lp.raised # "none" THEN NoResponse
         ELSE WidgetResponse(s.xp_tot, lp)

\* Lines 52-68 and the handler around them (lines 76-89, 93-165): the
\* response of index() once results is known.
Render(res, level_xp) ==
    LET s == SumXp(res) IN
    IF s.raised # "none" THEN ErrorResponse(s.raised)
    ELSE LET lp == LevelProgress(s.xp_tot, level_xp) IN
         IF lp.raised # "none" THEN ErrorResponse(lp.raised)
         ELSE WidgetResponse(s.xp_tot, lp)

NoCalc == [T |-> 0, P |-> 1, state |-> "off", out |-> LevelProgress(0, 1)]
NoAgg  == [records |-> <<>>, i |-> 1, xp_tot |-> 0, state |-> "off", raised |-> "none"]

\* The shapes of the records the database holds in one run: well-formed
\* number records, records whose properties are null, or records whose
\* number is a string.
RecordShapes == {RecNumber(3), RecPropsNull, RecNumberStr}

\* The state of the server right after line 24, before the check of line 12
\* is modelled as taken.  The configuration, the records of the database and
\* the exception classes are chosen independently of one another, and every
\* combination is served by the same worker threads.
InitServer ==
    /\ proc = "loading"
    /\ NOTION_TOKEN \in TokenValues
    /\ DATABASE_ID \in DatabaseValues
    /\ LEVEL_XP \in LevelXpValues
    /\ CACHE_TTL \in CacheTtlValues
    /\ threads = Workers
    /\ database \in {{<<>>, <<x>>} : x \in RecordShapes}
    /\ faults = FetchFaults
    /\ clock = 0
    /\ cache = [ts |-> 0, payload |-> NonePayload]
    /\ born = 0
    /\ pc = [r \in Workers |-> "idle"]
    /\ now = [r \in Workers |-> 0]
    /\ results = [r \in Workers |-> <<>>]
    /\ fetch_results = [r \in Workers |-> <<>>]
    /\ start_cursor = [r \in Workers |-> NoCursor]
    /\ posts = [r \in Workers |-> 0]
    /\ fetchCalls = [r \in Workers |-> 0]
    /\ resp = [r \in Workers |-> NoResponse]

\* No fetch is being checked alone.
NoFetch ==
    [state |-> "off", start_cursor |-> NoCursor, results |-> <<>>, raised |-> "none"]

InitNoFetch ==
    /\ fetch = NoFetch
    /\ wire = <<>>
    /\ upstream = "answers"

\* The upstream of the server either answers as it likes ("answers") or
\* answers every request with has_more true and a cursor ("endless").
Init ==
    /\ InitServer
    /\ calc = NoCalc
    /\ agg = NoAgg
    /\ fetch = NoFetch
    /\ wire = <<>>
    /\ upstream \in {"answers", "endless"}

\* StartupOk with the test of line 12 written with "and": one of the two
\* values is enough.
StartupOk_EitherOne ==
    /\ proc = "loading"
    /\ NOTION_TOKEN # "" \/ DATABASE_ID # ""
    /\ proc' = "serving"
    /\ UNCHANGED <<config, env, clock, shared, pc, locals, resp, pure>>

\* Lines 12-13: the module raises RuntimeError unless both are non-empty.
StartupOk ==
    /\ proc = "loading"
    /\ NOTION_TOKEN # "" /\ DATABASE_ID # ""
    /\ proc' = "serving"
    /\ UNCHANGED <<config, env, clock, shared, pc, locals, resp, pure>>

StartupFail ==
    /\ proc = "loading"
    /\ ~(NOTION_TOKEN # "" /\ DATABASE_ID # "")
    /\ proc' = "failed"
    /\ UNCHANGED <<config, env, clock, shared, pc, locals, resp, pure>>

\* Time passes.
Tick ==
    /\ proc = "serving"
    /\ clock < MaxClock
    /\ clock' = clock + 1
    /\ UNCHANGED <<proc, config, env, shared, pc, locals, resp, pure>>

\* The locals of a worker die with the request; the count of its fetches is
\* kept until the worker takes the next one.
ResetLocals(r) ==
    /\ now' = [now EXCEPT ![r] = 0]
    /\ results' = [results EXCEPT ![r] = <<>>]
    /\ fetch_results' = [fetch_results EXCEPT ![r] = <<>>]
    /\ start_cursor' = [start_cursor EXCEPT ![r] = NoCursor]
    /\ posts' = [posts EXCEPT ![r] = 0]
    /\ UNCHANGED fetchCalls

\* GET /health, lines 70-72, handled by a worker that is not inside a GET /.
Health(r) ==
    /\ proc = "serving"
    /\ pc[r] \in {"idle", "done"}
    /\ resp' = [resp EXCEPT ![r] = HealthResponse(cache.payload)]
    /\ UNCHANGED <<proc, config, env, clock, shared, pc, locals, pure>>

\* GET / arrives: index() calls compute_xp_level_progress, line 43 reads the
\* time.
Request(r) ==
    /\ proc = "serving"
    /\ pc[r] \in {"idle", "done"}
    /\ pc' = [pc EXCEPT ![r] = "l44a"]
    /\ now' = [now EXCEPT ![r] = clock]
    /\ resp' = [resp EXCEPT ![r] = NoResponse]
    /\ fetchCalls' = [fetchCalls EXCEPT ![r] = 0]
    /\ UNCHANGED <<results, fetch_results, start_cursor, posts>>
    /\ UNCHANGED <<proc, config, env, clock, shared, pure>>

\* Line 47 calls fetch_all_pages; lines 27-29 set up its locals and the
\* worker stands before the first requests.post of line 31.
CallFetch(r) ==
    /\ fetchCalls' = [fetchCalls EXCEPT ![r] = fetchCalls[r] + 1]
    /\ fetch_results' = [fetch_results EXCEPT ![r] = <<>>]
    /\ start_cursor' = [start_cursor EXCEPT ![r] = NoCursor]
    /\ pc' = [pc EXCEPT ![r] = "l31"]
    /\ UNCHANGED <<now, results, posts>>

\* Line 44, left operand: _cache["payload"] is read and tested; a false
\* value (None or the empty list) sends the request to line 47.
CheckPayload(r) ==
    /\ pc[r] = "l44a"
    /\ IF Truthy(cache.payload)
       THEN /\ pc' = [pc EXCEPT ![r] = "l44b"]
            /\ UNCHANGED locals
       ELSE CallFetch(r)
    /\ UNCHANGED <<proc, config, env, clock, shared, resp, pure>>

\* Line 44, right operand: _cache["ts"] is read and compared; now is not
\* read again on the way through line 45.
CheckTs(r) ==
    /\ pc[r] = "l44b"
    /\ IF Fresh(now[r], cache.ts, CACHE_TTL)
       THEN /\ pc' = [pc EXCEPT ![r] = "l45"]
            /\ now' = [now EXCEPT ![r] = 0]
            /\ UNCHANGED <<results, fetch_results, start_cursor, posts, fetchCalls>>
       ELSE CallFetch(r)
    /\ UNCHANGED <<proc, config, env, clock, shared, resp, pure>>

\* CacheHit that refreshes the timestamp of the snapshot it serves (a
\* sliding expiration).
CacheHit_Touch(r) ==
    /\ pc[r] = "l45"
    /\ cache' = [cache EXCEPT !.ts = clock]
    /\ resp' = [resp EXCEPT ![r] = Render(cache.payload.list, LEVEL_XP)]
    /\ pc' = [pc EXCEPT ![r] = "done"]
    /\ ResetLocals(r)
    /\ UNCHANGED <<proc, config, env, clock, born, pure>>

\* Line 45: the cached list is read again and becomes results; lines 52-68
\* and the rest of index() work on that local list and touch no shared state.
CacheHit(r) ==
    /\ pc[r] = "l45"
    /\ resp' = [resp EXCEPT ![r] = Render(cache.payload.list, LEVEL_XP)]
    /\ pc' = [pc EXCEPT ![r] = "done"]
    /\ ResetLocals(r)
    /\ UNCHANGED <<proc, config, env, clock, shared, pure>>

\* The upstream goes on answering with has_more and a cursor after the
\* MaxPosts requests the model counts: only an endless upstream does, with
\* empty pages.
Beyond(r, page) == posts[r] + 1 >= MaxPosts /\ upstream = "endless" /\ page = <<>>

\* Lines 31-38 with a successful response: the page is appended, and the
\* loop goes on when has_more and next_cursor are both true values.
\* Otherwise line 39 returns the list, line 47 binds it to results and line
\* 48 stores it in _cache["payload"]; nothing of the loop is read after it.
PostOk(r, page, has_more, next_cursor) ==
    /\ pc[r] = "l31"
    /\ upstream = "endless" => (has_more /\ next_cursor # NoCursor)
    /\ IF has_more /\ next_cursor # NoCursor
       THEN /\ posts[r] + 1 < MaxPosts \/ Beyond(r, page)
            /\ posts' = [posts EXCEPT ![r] = IF posts[r] + 1 < MaxPosts THEN posts[r] + 1 ELSE posts[r]]
            /\ start_cursor' = [start_cursor EXCEPT ![r] = next_cursor]
            /\ fetch_results' = [fetch_results EXCEPT ![r] = fetch_results[r] \o page]
            /\ UNCHANGED <<pc, results, shared>>
       ELSE /\ posts' = [posts EXCEPT ![r] = 0]
            /\ start_cursor' = [start_cursor EXCEPT ![r] = NoCursor]
            /\ fetch_results' = [fetch_results EXCEPT ![r] = <<>>]
            /\ results' = [results EXCEPT ![r] = fetch_results[r] \o page]
            /\ cache' = [cache EXCEPT !.payload = ListPayload(fetch_results[r] \o page)]
            /\ born' = now[r]
            /\ pc' = [pc EXCEPT ![r] = "l49"]
    /\ UNCHANGED <<now, fetchCalls>>
    /\ UNCHANGED <<proc, config, env, clock, resp, pure>>

\* PostFail that stores the pages received so far before the exception
\* leaves.
PostFail_StoresPartial(r, e) ==
    /\ pc[r] = "l31"
    /\ upstream = "answers"
    /\ cache' = [cache EXCEPT !.payload = ListPayload(fetch_results[r])]
    /\ born' = now[r]
    /\ resp' = [resp EXCEPT ![r] = ErrorResponse(e)]
    /\ pc' = [pc EXCEPT ![r] = "done"]
    /\ ResetLocals(r)
    /\ UNCHANGED <<proc, config, env, clock, pure>>

\* Lines 31-34 raising an exception of class e: it leaves fetch_all_pages and
\* compute_xp_level_progress and is caught at line 78; lines 80-89 answer
\* with the error page for that exception.
PostFail(r, e) ==
    /\ pc[r] = "l31"
    /\ upstream = "answers"
    /\ resp' = [resp EXCEPT ![r] = ErrorResponse(e)]
    /\ pc' = [pc EXCEPT ![r] = "done"]
    /\ ResetLocals(r)
    /\ UNCHANGED <<proc, config, env, clock, shared, pure>>

\* StoreTs that reads the time again.
StoreTs_Clock(r) ==
    /\ pc[r] = "l49"
    /\ cache' = [cache EXCEPT !.ts = clock]
    /\ resp' = [resp EXCEPT ![r] = Render(results[r], LEVEL_XP)]
    /\ pc' = [pc EXCEPT ![r] = "done"]
    /\ ResetLocals(r)
    /\ UNCHANGED <<proc, config, env, clock, born, pure>>

\* Line 49 stores now; lines 52-68 and the rest of index() work on the local
\* results and touch no shared state.
StoreTs(r) ==
    /\ pc[r] = "l49"
    /\ cache' = [cache EXCEPT !.ts = now[r]]
    /\ resp' = [resp EXCEPT ![r] = Render(results[r], LEVEL_XP)]
    /\ pc' = [pc EXCEPT ![r] = "done"]
    /\ ResetLocals(r)
    /\ UNCHANGED <<proc, config, env, clock, born, pure>>

\* One step of the request worker r is handling.
Serve(r) ==
    \/ CheckPayload(r)
    \/ CheckTs(r)
    \/ CacheHit(r)
    \/ \E page \in database, has_more \in BOOLEAN, next_cursor \in Cursors \cup {NoCursor} :
          PostOk(r, page, has_more, next_cursor)
    \/ \E e \in faults : PostFail(r, e)
    \/ StoreTs(r)

Next ==
    \/ StartupOk
    \/ StartupFail
    \/ Tick
    \/ \E r \in threads : Health(r)
    \/ \E r \in threads : Request(r)
    \/ \E r \in threads : CheckPayload(r)
    \/ \E r \in threads : CheckTs(r)
    \/ \E r \in threads : CacheHit(r)
    \/ \E r \in threads, page \in database, has_more \in BOOLEAN, next_cursor \in Cursors \cup {NoCursor} :
          PostOk(r, page, has_more, next_cursor)
    \/ \E r \in threads, e \in faults : PostFail(r, e)
    \/ \E r \in threads : StoreTs(r)

Spec == Init /\ [][Next]_vars

\* Every request in progress is scheduled: a step it can take is taken, and
\* requests.post returns or raises within its timeout (line 31, timeout=20).
SpecLive == Spec /\ \A r \in Workers : WF_vars(Serve(r))

\* ------------------------------------------------------------------
\* The level computation alone, on a range of totals and divisors
\* ------------------------------------------------------------------
Totals   == (0 - 2)..MaxTotal
LevelXps == (0 - 2)..MaxLevelXp

server == <<proc, config, env, clock, shared, pc, locals, resp>>

InitLevel ==
    /\ InitServer
    /\ agg = NoAgg
    /\ InitNoFetch
    /\ \E T \in Totals, P \in LevelXps :
          calc = [T |-> T, P |-> P, state |-> "in", out |-> LevelProgress(0, 1)]

\* Lines 65-67 applied to xp_tot = calc.T and LEVEL_XP = calc.P.
LevelStep ==
    /\ calc.state = "in"
    /\ calc' = [calc EXCEPT !.state = "out", !.out = LevelProgress(calc.T, calc.P)]
    /\ UNCHANGED <<server, agg, fetching>>

NextLevel == LevelStep

SpecLevel == InitLevel /\ [][NextLevel]_vars

\* ------------------------------------------------------------------
\* The level computation alone, on totals and divisors beyond machine size
\* ------------------------------------------------------------------
\* The powers of two around the precision of a double, the numbers just
\* below them, and a few small numbers.
Pows    == {NatShl(<<1>>, k) : k \in (FloatBits - 1)..MaxPow}
BigNats == {NatOf(n) : n \in 0..3} \cup Pows \cup {NatSub(p, <<1>>) : p \in Pows}

InitProgress ==
    /\ InitServer
    /\ agg = NoAgg
    /\ InitNoFetch
    /\ \E T \in BigNats, P \in BigNats :
          calc = [T |-> T, P |-> P, state |-> "in", out |-> LevelProgressNat(<<>>, <<1>>)]

\* Lines 65-67 applied to xp_tot = calc.T and LEVEL_XP = calc.P.
ProgressStep ==
    /\ calc.state = "in"
    /\ calc' = [calc EXCEPT !.state = "out", !.out = LevelProgressNat(calc.T, calc.P)]
    /\ UNCHANGED <<server, agg, fetching>>

NextProgress == ProgressStep

SpecProgress == InitProgress /\ [][NextProgress]_vars

\* ------------------------------------------------------------------
\* The aggregation loop alone, on record collections of every shape
\* ------------------------------------------------------------------
Shapes ==
    { RecNumber(3), RecNumber(0), RecNumberNull, RecNumberStr,
      RecFormula(4), RecFormulaNull, RecFormulaNoNum, RecFormulaStr,
      RecOtherType, RecNoXp, RecNoProps, RecPropsNull, RecXpNull, RecXpStr }

Collections == UNION { [1..n -> Shapes] : n \in 0..MaxRecords }

InitAgg ==
    /\ InitServer
    /\ calc = NoCalc
    /\ InitNoFetch
    /\ \E recs \in Collections :
          agg = [records |-> recs, i |-> 1, xp_tot |-> 0, state |-> "loop", raised |-> "none"]

\* Lines 53-63 for the record at position agg.i, no exception.
AggStep ==
    /\ agg.state = "loop"
    /\ agg.i <= Len(agg.records)
    /\ LET s == AddXp(agg.xp_tot, agg.records[agg.i]) IN
          /\ s.raised = "none"
          /\ agg' = [agg EXCEPT !.i = agg.i + 1, !.xp_tot = s.xp_tot]
    /\ UNCHANGED <<server, calc, fetching>>

\* Lines 53-63 for the record at position agg.i, an exception leaves the loop.
AggRaise ==
    /\ agg.state = "loop"
    /\ agg.i <= Len(agg.records)
    /\ LET s == AddXp(agg.xp_tot, agg.records[agg.i]) IN
          /\ s.raised # "none"
          /\ agg' = [agg EXCEPT !.state = "raised", !.raised = s.raised]
    /\ UNCHANGED <<server, calc, fetching>>

\* The loop is over: xp_tot is the total.
AggReturn ==
    /\ agg.state = "loop"
    /\ agg.i > Len(agg.records)
    /\ agg' = [agg EXCEPT !.state = "returned"]
    /\ UNCHANGED <<server, calc, fetching>>

NextAgg == AggStep \/ AggRaise \/ AggReturn

SpecAgg == InitAgg /\ [][NextAgg]_vars

\* ------------------------------------------------------------------
\* fetch_all_pages alone, against an upstream that answers as it likes
\* ------------------------------------------------------------------
MaxExchanges == 3     \* POSTs of one fetch whose history is kept
MaxFetched   == 3     \* records one fetch may accumulate

FetchCursors == {"c1", "c2"}
FetchPages   == {<<>>, <<RecNumber(1)>>, <<RecNumber(2)>>}

\* What lines 31-34 get from one request: an exception of class fault
\* (ok = FALSE), or a JSON body whose results is a list.  next_cursor
\* NoCursor stands for an absent, null or empty next_cursor, has_more FALSE
\* for an absent, null or false has_more.
FailedResponse(e) ==
    [ok |-> FALSE, fault |-> e, results |-> <<>>, has_more |-> FALSE,
     next_cursor |-> NoCursor]

Responses ==
    {FailedResponse(e) : e \in FetchFaults} \cup
    [ok : {TRUE}, fault : {"none"}, results : FetchPages, has_more : BOOLEAN,
     next_cursor : FetchCursors \cup {NoCursor}]

\* Line 35: the response asks for another request.
Continues(rsp) == rsp.ok /\ rsp.has_more /\ rsp.next_cursor # NoCursor

\* The loop body that sets start_cursor only when the payload has none yet.
FetchLoop_FirstCursorKept(f, rsp) ==
    IF ~rsp.ok
    THEN [state |-> "raised", start_cursor |-> NoCursor, results |-> <<>>,
          raised |-> rsp.fault]
    ELSE IF rsp.has_more /\ rsp.next_cursor # NoCursor
         THEN [state |-> "loop",
               start_cursor |-> IF f.start_cursor = NoCursor
                                THEN rsp.next_cursor ELSE f.start_cursor,
               results |-> f.results \o rsp.results, raised |-> "none"]
         ELSE [state |-> "returned", start_cursor |-> f.start_cursor,
               results |-> f.results \o rsp.results, raised |-> "none"]

\* The loop body that sends the same request again after a failure.
FetchLoop_Retry(f, rsp) ==
    IF ~rsp.ok
    THEN f
    ELSE IF rsp.has_more /\ rsp.next_cursor # NoCursor
         THEN [state |-> "loop", start_cursor |-> rsp.next_cursor,
               results |-> f.results \o rsp.results, raised |-> "none"]
         ELSE [state |-> "returned", start_cursor |-> f.start_cursor,
               results |-> f.results \o rsp.results, raised |-> "none"]

\* The loop body that stops when the upstream hands back the cursor that was
\* just sent.
FetchLoop_StopsOnRepeat(f, rsp) ==
    IF ~rsp.ok
    THEN [state |-> "raised", start_cursor |-> NoCursor, results |-> <<>>,
          raised |-> rsp.fault]
    ELSE IF rsp.has_more /\ rsp.next_cursor # NoCursor
            /\ rsp.next_cursor # f.start_cursor
         THEN [state |-> "loop", start_cursor |-> rsp.next_cursor,
               results |-> f.results \o rsp.results, raised |-> "none"]
         ELSE [state |-> "returned", start_cursor |-> f.start_cursor,
               results |-> f.results \o rsp.results, raised |-> "none"]

\* Lines 31-38, one turn of the loop on the response rsp: an exception of
\* lines 31-34 leaves the function and its locals are gone; otherwise
\* the page is appended, and either next_cursor goes into the payload and the
\* loop turns again, or the loop breaks and line 39 returns results.
FetchLoop(f, rsp) ==
    IF ~rsp.ok
    THEN [state |-> "raised", start_cursor |-> NoCursor, results |-> <<>>,
          raised |-> rsp.fault]
    ELSE IF rsp.has_more /\ rsp.next_cursor # NoCursor
         THEN [state |-> "loop", start_cursor |-> rsp.next_cursor,
               results |-> f.results \o rsp.results, raised |-> "none"]
         ELSE [state |-> "returned", start_cursor |-> f.start_cursor,
               results |-> f.results \o rsp.results, raised |-> "none"]

\* Lines 27-29 have run: the payload has no cursor, results is empty.
FetchEntered ==
    [state |-> "loop", start_cursor |-> NoCursor, results |-> <<>>, raised |-> "none"]

InitFetch ==
    /\ InitServer
    /\ calc = NoCalc
    /\ agg = NoAgg
    /\ fetch = FetchEntered
    /\ wire = <<>>
    /\ upstream = "answers"

\* Line 31 sends the payload, with the cursor it holds, and lines 32-38 take
\* the response.  The history keeps at most MaxExchanges POSTs, so the last
\* of them does not ask for another.
FetchPost(rsp) ==
    /\ fetch.state = "loop"
    /\ Continues(rsp) => Len(wire) + 1 < MaxExchanges
    /\ fetch' = FetchLoop(fetch, rsp)
    /\ wire' = Append(wire, [sent |-> fetch.start_cursor, rsp |-> rsp])
    /\ UNCHANGED <<server, calc, agg, upstream>>

NextFetch == \E rsp \in Responses : FetchPost(rsp)

SpecFetch == InitFetch /\ [][NextFetch]_vars

\* ------------------------------------------------------------------
\* fetch_all_pages alone, without a bound on the number of POSTs
\* ------------------------------------------------------------------
\* The upstream either answers as it likes ("answers") or answers every
\* request with has_more true and a cursor ("endless").
InitFetchLive ==
    /\ InitServer
    /\ calc = NoCalc
    /\ agg = NoAgg
    /\ fetch = FetchEntered
    /\ wire = <<>>
    /\ upstream \in {"answers", "endless"}

\* One turn of the loop, no history kept.  Only the size of the accumulated
\* list is bounded; empty pages can go on for ever.
FetchPostLive(rsp) ==
    /\ fetch.state = "loop"
    /\ upstream = "endless" => Continues(rsp)
    /\ Len(fetch.results \o rsp.results) <= MaxFetched
    /\ fetch' = FetchLoop(fetch, rsp)
    /\ UNCHANGED <<server, calc, agg, wire, upstream>>

\* The upstream gives an answer that does not ask for another request.
FinalAnswer == \E rsp \in Responses : ~Continues(rsp) /\ FetchPostLive(rsp)

NextFetchLive == \E rsp \in Responses : FetchPostLive(rsp)

\* requests.post returns or raises within its timeout (line 31, timeout=20),
\* so a pending turn of the loop is taken; an upstream that is not endless
\* gives a final answer at some point.
SpecFetchLive ==
    /\ InitFetchLive
    /\ [][NextFetchLive]_vars
    /\ WF_vars(NextFetchLive)
    /\ SF_vars(FinalAnswer)

\* ------------------------------------------------------------------
\* Vocabulary of the properties
\* ------------------------------------------------------------------
\* Worker r executes the line it stands at and leaves it.
Leaves(r, line) == pc[r] = line /\ pc'[r] # line

\* Worker r takes a step.
Steps(r) == pc'[r] # pc[r] \/ posts'[r] # posts[r]

\* No worker is between line 48 and line 49.
NoWriter == \A r \in Workers : pc[r] # "l49"

\* The cache holds what one successful fetch stored, records and timestamp.
Populated == ~cache.payload.isNone /\ cache.ts = born /\ NoWriter

\* Time t lies in the TTL window that starts at the cached timestamp.
InWindow(t) == cache.ts <= t /\ t < cache.ts + CACHE_TTL

\* ------------------------------------------------------------------
\* C1
\* ------------------------------------------------------------------
\* C1, as stated: once a fetch has succeeded and filled the cache, a read
\* whose time is within the TTL window of that fetch goes on to be served
\* from the cache, whatever record collection the fetch returned.
C1_AnyCollectionReused ==
    [][\A r \in Workers :
          (Leaves(r, "l44a") /\ Populated /\ InWindow(now[r])) => pc'[r] = "l44b"]_vars

\* C1, amended: a read that finds at line 44 a non-empty record collection
\* and a timestamp less than CACHE_TTL before its own time makes no upstream
\* call and is answered from the collection the cache holds when line 45
\* reads it, be it the one line 44 saw or one stored in between, even an
\* empty one; a read that finds None or an empty collection at line 44 calls
\* the upstream, inside the TTL window too.
C1_NonEmptyReused ==
    [][\A r \in Workers :
          /\ (Leaves(r, "l44a") /\ Truthy(cache.payload)) =>
                (pc'[r] = "l44b" /\ fetchCalls'[r] = 0)
          /\ (Leaves(r, "l44a") /\ ~Truthy(cache.payload)) =>
                (pc'[r] = "l31" /\ fetchCalls'[r] = 1)
          /\ (Leaves(r, "l44b") /\ now[r] - cache.ts < CACHE_TTL) =>
                (pc'[r] = "l45" /\ fetchCalls'[r] = 0)
          /\ Leaves(r, "l45") =>
                /\ pc'[r] = "done"
                /\ resp'[r] = Render(cache.payload.list, LEVEL_XP)
                /\ posts'[r] = 0 /\ fetchCalls'[r] = 0
                /\ cache' = cache]_vars

\* A request has been answered with the widget page for a positive total
\* without any upstream call: its records came from the cache.
C1_Witness ==
    \E r \in Workers :
        /\ pc[r] = "done" /\ fetchCalls[r] = 0
        /\ resp[r].status = 200 /\ resp[r].body = "widget" /\ resp[r].xp_tot > 0

\* ------------------------------------------------------------------
\* C2
\* ------------------------------------------------------------------
\* C2: a read that finds the cache never populated (or holding an empty
\* list), or finds a timestamp with now - ts >= CACHE_TTL, calls
\* fetch_all_pages, and a request calls it at most once; when the fetch has
\* succeeded line 48 puts the fetched records into the cache and line 49 the
\* timestamp; the cache changes in no other step than lines 48 and 49 of a
\* request that has fetched, the passing of time alone changes nothing.
C2_ExpiredReadFetchesOnce ==
    [][/\ \A r \in Workers :
             /\ (Leaves(r, "l44a") /\ ~Truthy(cache.payload)) =>
                   (pc'[r] = "l31" /\ fetchCalls[r] = 0 /\ fetchCalls'[r] = 1)
             /\ (Leaves(r, "l44b") /\ now[r] - cache.ts >= CACHE_TTL) =>
                   (pc'[r] = "l31" /\ fetchCalls[r] = 0 /\ fetchCalls'[r] = 1)
             /\ pc[r] \in {"l31", "l49"} => (fetchCalls[r] = 1 /\ fetchCalls'[r] = 1)
             /\ Leaves(r, "l31") => pc'[r] \in {"l49", "done"}
             /\ (pc[r] = "l31" /\ pc'[r] = "l49") =>
                   (cache'.payload = ListPayload(results'[r]) /\ cache'.ts = cache.ts)
             /\ Leaves(r, "l49") =>
                   (cache'.ts = now[r] /\ cache'.payload = cache.payload)
       /\ (cache' # cache) =>
             \E r \in Workers : pc[r] \in {"l31", "l49"} /\ Steps(r) /\ fetchCalls[r] = 1]_vars

\* The only worker that has ever taken a request read the cache at a time
\* CACHE_TTL or more after the timestamp it held (no other worker has
\* written since), fetched once, two pages, and line 48 has put the new
\* records into the cache.
C2_Witness ==
    \E r \in Workers :
        /\ \A q \in Workers \ {r} : pc[q] = "idle"
        /\ pc[r] = "l49" /\ fetchCalls[r] = 1
        /\ now[r] - cache.ts >= CACHE_TTL
        /\ cache.payload = ListPayload(results[r])
        /\ Len(results[r]) = 2

\* ------------------------------------------------------------------
\* C3
\* ------------------------------------------------------------------
\* C3: the step in which a request of the fetch fails, on the first page or
\* on a later one, leaves both cache fields as they are and answers with the
\* error page carrying the failure, not with a page computed from the cached
\* records; and no earlier step of that request has written the cache.
C3_FailedFetchKeepsCache ==
    [][\A r \in Workers :
          /\ (pc[r] = "l31" /\ pc'[r] = "done") =>
                /\ cache' = cache /\ born' = born
                /\ resp'[r].status = 500 /\ resp'[r].body = "error"
                /\ resp'[r].msg \in FetchFaults
          /\ (pc[r] \in {"idle", "done", "l44a", "l44b", "l45"} /\ Steps(r)) =>
                (cache' = cache /\ born' = born)
          /\ (pc[r] = "l31" /\ Steps(r) /\ pc'[r] = "l31") =>
                (cache' = cache /\ born' = born)]_vars

\* The only worker that has ever taken a request has failed upstream on a
\* read timeout after an earlier request of its own had filled the cache:
\* the snapshot is still there.
C3_Witness ==
    \E r \in Workers :
        /\ \A q \in Workers \ {r} : pc[q] = "idle"
        /\ pc[r] = "done" /\ fetchCalls[r] = 1
        /\ resp[r].msg = "ReadTimeout" /\ resp[r].status = 500
        /\ Populated /\ Truthy(cache.payload)

\* ------------------------------------------------------------------
\* C4
\* ------------------------------------------------------------------
\* C4: whenever no request is in the middle of replacing the cache, the cache
\* is empty or the timestamp it holds is the timestamp of the fetch cycle
\* that produced the records it holds.
C4_OneFetchCycle ==
    NoWriter => (cache.payload.isNone \/ cache.ts = born)

\* ------------------------------------------------------------------
\* C5
\* ------------------------------------------------------------------
\* C5, as stated: the timestamp line 49 stores is the time at the moment the
\* cache is replaced.
C5_StampIsTimeOfReplacement ==
    [][\A r \in Workers : Leaves(r, "l49") => cache'.ts = clock]_vars

\* C5, amended: the timestamp line 49 stores is the time the request read at
\* line 43, before the freshness test and before the fetch was called; the
\* request never reads the time again.
C5_StampIsTimeOfRequest ==
    [][\A r \in Workers :
          /\ (pc[r] \in {"idle", "done"} /\ Steps(r)) => now'[r] = clock
          /\ (pc[r] \in {"l44a", "l44b", "l31"} /\ Steps(r) /\ pc'[r] \in {"l44b", "l31", "l49"}) =>
                now'[r] = now[r]
          /\ Leaves(r, "l49") => cache'.ts = now[r]]_vars

\* Line 49 has stored a time that had passed.  Both workers have fetched and
\* answered, and the records in the cache come from a request that began
\* later than the time in the timestamp: that request stored its own, later
\* time at its line 49, so the timestamp now in the cache was stored after
\* it, when the clock had moved on, by the request that began earlier.
C5_Witness ==
    /\ \A r \in Workers :
          pc[r] = "done" /\ fetchCalls[r] = 1 /\ resp[r].status = 200
    /\ ~cache.payload.isNone
    /\ cache.ts < born

\* ------------------------------------------------------------------
\* C6
\* ------------------------------------------------------------------
\* The chain cache -> aggregation -> level computation completes on res.
ChainCompletes(res) == SumXp(res).raised = "none" /\ LEVEL_XP # 0

\* C6, as stated: every GET / produces a response.
C6_EveryRequestAnswered ==
    \A r \in Workers : (pc[r] = "l44a") ~> (pc[r] = "done")

\* What a step that ends a GET / leaves: status 500 with the error page
\* carrying the failure when the fetch, the aggregation or the level
\* computation raised, status 200 with the widget page otherwise; both carry
\* Cache-Control no-store; the process is still serving and the worker
\* accepts the next request.
EndsWithResponse(r) ==
    /\ pc'[r] = "done" => (proc' = "serving" /\ resp'[r].status \in {200, 500})
    /\ (pc[r] # "done" /\ pc'[r] = "done") =>
          /\ pc[r] \in {"l31", "l45", "l49"}
          /\ "no-store" \in resp'[r].cache_control
          /\ pc[r] = "l31" =>
                (resp'[r].status = 500 /\ resp'[r].body = "error" /\ resp'[r].msg \in FetchFaults)
          /\ LET res == IF pc[r] = "l45" THEN cache.payload.list ELSE results[r] IN
             pc[r] \in {"l45", "l49"} =>
                IF ChainCompletes(res)
                THEN resp'[r].status = 200 /\ resp'[r].body = "widget" /\ resp'[r].msg = "none"
                ELSE /\ resp'[r].status = 500 /\ resp'[r].body = "error"
                     /\ resp'[r].msg \in {"AttributeError", "TypeError", "ZeroDivisionError"}
    /\ (pc[r] = "done" /\ Steps(r)) => (pc'[r] = "l44a" /\ proc' = "serving")

\* C6, amended: every GET / whose upstream does not go on for ever asking for
\* another page produces a response, status 200 with the widget page or
\* status 500 with the error page, both with Cache-Control no-store, and the
\* server keeps serving later requests; against an upstream that answers
\* every request with has_more and a cursor the request stays in the fetch
\* and is never answered.
C6_AlwaysAResponse ==
    /\ [][\A r \in Workers :
             /\ EndsWithResponse(r)
             /\ (upstream = "endless" /\ pc[r] = "l31") => pc'[r] = "l31"]_vars
    /\ \A r \in Workers :
          (pc[r] = "l44a" /\ upstream = "answers") ~>
             (pc[r] = "done" /\ resp[r].status \in {200, 500}
                /\ "no-store" \in resp[r].cache_control)

\* Both outcomes stand side by side: one worker has answered 200 with the
\* widget page, the other 500 with the error page.
C6_Witness ==
    \E r1, r2 \in Workers :
        /\ pc[r1] = "done" /\ resp[r1].status = 200 /\ resp[r1].body = "widget"
        /\ pc[r2] = "done" /\ resp[r2].status = 500 /\ resp[r2].body = "error"
        /\ "no-store" \in resp[r1].cache_control \cap resp[r2].cache_control

\* ------------------------------------------------------------------
\* C7
\* ------------------------------------------------------------------
\* C7: for P > 0 and T >= 0 the level computation returns level and
\* remainder with level * P + remainder = T and 0 <= remainder < P.
C7_DivisionIdentity ==
    (calc.state = "out" /\ calc.P > 0 /\ calc.T >= 0) =>
        /\ calc.out.raised = "none"
        /\ calc.out.level * calc.P + calc.out.reste = calc.T
        /\ 0 <= calc.out.reste /\ calc.out.reste < calc.P

\* The level computation has returned a positive level and a positive
\* remainder.
C7_Witness ==
    /\ calc.state = "out" /\ calc.P > 1 /\ calc.T > calc.P
    /\ calc.out.level >= 2 /\ calc.out.reste > 0

\* ------------------------------------------------------------------
\* C8
\* ------------------------------------------------------------------
\* C8: for every P > 0 and T >= 0 the progress (remainder / P) * 100 is at
\* least 0 and less than 100, and it is 0 exactly when P divides T.
C8_ProgressRange ==
    (calc.state = "out" /\ calc.P # <<>>) =>
        /\ calc.out.raised = "none"
        /\ ~calc.out.progress.neg
        /\ ~FloatGeq(calc.out.progress, NatOf(100))
        /\ (calc.out.progress.m = <<>>) <=> (NatDivMod(calc.T, calc.P).r = <<>>)

\* ------------------------------------------------------------------
\* C9
\* ------------------------------------------------------------------
\* The contribution of one record as the description of the aggregator gives
\* it: the number under type number, the number nested in the formula under
\* type formula, null or nothing counting as 0, and 0 for an absent XP
\* property or any other type.
Contribution(page) ==
    LET hasXp == page.props = "obj" /\ page.xp = "obj" IN
    CASE hasXp /\ page.type = "number" /\ page.number.tag = "int" -> page.number.n
      [] hasXp /\ page.type = "formula" /\ page.formula = "obj" /\ page.fnumber.tag = "int" ->
            page.fnumber.n
      [] OTHER -> 0

RECURSIVE SumOfContributions(_)
SumOfContributions(recs) ==
    IF recs = <<>> THEN 0
    ELSE Contribution(recs[Len(recs)]) + SumOfContributions(SubSeq(recs, 1, Len(recs) - 1))

\* C9: the total the aggregation returns is the sum of the contributions of
\* the records; it is 0 for the empty collection.
C9_TotalIsSumOfContributions ==
    agg.state = "returned" =>
        /\ agg.xp_tot = SumOfContributions(agg.records)
        /\ agg.records = <<>> => agg.xp_tot = 0

\* The aggregation has returned the total of a number record and a formula
\* record.
C9_Witness ==
    /\ agg.state = "returned" /\ agg.xp_tot = 7
    /\ \E i, j \in 1..Len(agg.records) :
          agg.records[i].type = "number" /\ agg.records[j].type = "formula"

\* ------------------------------------------------------------------
\* C10
\* ------------------------------------------------------------------
\* C10: the aggregation never raises, whatever the shape of the records.
C10_AggregationNeverRaises ==
    agg.state # "raised"


----------------------------------------------------------------------------
\* C11.  points_per_level > 0 is enforced by validation at startup: the
\* process never handles a request with a points-per-level value that is zero
\* or negative.  As stated: whenever a worker has taken up a request, LEVEL_XP
\* is positive.  Lines 9 and 12-13 do not look at LEVEL_XP, so this fails.
C11_LevelXpValidated ==
    (\E r \in Workers : pc[r] # "idle") => LEVEL_XP > 0

----------------------------------------------------------------------------
\* C12.  Whenever the API token or the database identifier is missing or
\* empty, startup fails with a configuration error, no request is ever served
\* and no upstream call is ever made: the module never gets past line 13, so
\* the only step the process takes is the one into "failed", every worker
\* stays idle without a response, and no fetch and no POST is counted.
NoConfig == NOTION_TOKEN = "" \/ DATABASE_ID = ""

C12_NoConfigNoService ==
    [][NoConfig =>
         /\ proc' # proc => (proc = "loading" /\ proc' = "failed")
         /\ proc' # "serving"
         /\ \A r \in Workers :
               /\ pc'[r] = "idle"
               /\ resp'[r] = NoResponse
               /\ fetchCalls'[r] = 0
               /\ posts'[r] = 0
         /\ cache' = cache]_vars

\* Startup has failed for want of the database identifier alone.
C12_Witness ==
    /\ proc = "failed"
    /\ NOTION_TOKEN # ""
    /\ DATABASE_ID = ""

----------------------------------------------------------------------------
\* C13.  GET /health returns status 200 with the fixed ok payload in every
\* reachable state, whether the cache is empty, fresh or expired and whether
\* the upstream is failing or not: in every state of the serving process,
\* whatever the cache holds and wherever the requests in progress stand,
\* lines 70-72 give status 200 and the ok payload, and the step that answers
\* a health request gives just that and touches neither the cache nor the
\* locals of any request.
HealthStep(r) ==
    /\ pc[r] \in {"idle", "done"}
    /\ pc'[r] = pc[r]
    /\ resp'[r] # resp[r]

C13_HealthAlwaysOk ==
    /\ [](proc = "serving" =>
             /\ HealthResponse(cache.payload).status = 200
             /\ HealthResponse(cache.payload).body = "ok")
    /\ [][\A r \in Workers :
             HealthStep(r) =>
                /\ resp'[r] = HealthResponse(cache.payload)
                /\ resp'[r].status = 200
                /\ resp'[r].body = "ok"
                /\ UNCHANGED <<shared, locals, pc>>]_vars

\* A worker has answered the health request after its own GET / had failed
\* upstream, the cache being empty then as it is now, while the other worker
\* waits for the upstream inside a GET /.
C13_Witness ==
    \E r, q \in Workers :
        /\ pc[r] = "done" /\ fetchCalls[r] = 1
        /\ resp[r].status = 200 /\ resp[r].body = "ok"
        /\ cache.payload.isNone
        /\ pc[q] = "l31"


----------------------------------------------------------------------------
\* C17.  A read served from the cache leaves both cache fields unchanged: no
\* step of a request that has not fetched (lines 43, 44, 45 and the
\* computation after a hit) changes the records or the timestamp in the
\* cache, and a read whose time is CACHE_TTL or more after the timestamp is
\* not served from the cache however often the snapshot was read in between.
C17_HitLeavesCache ==
    [][\A r \in Workers :
         /\ (Steps(r) /\ fetchCalls'[r] = 0) =>
               (cache'.ts = cache.ts /\ cache'.payload = cache.payload)
         /\ (Leaves(r, "l44b") /\ now[r] >= cache.ts + CACHE_TTL) =>
               (pc'[r] = "l31" /\ fetchCalls'[r] = 1)]_vars

\* One worker has been served from the cache, and another, whose time is
\* CACHE_TTL or more after the unchanged timestamp, has called the upstream.
C17_Witness ==
    \E r, q \in Workers :
        /\ pc[r] = "done" /\ fetchCalls[r] = 0
        /\ resp[r].status = 200 /\ resp[r].body = "widget" /\ resp[r].xp_tot > 0
        /\ Populated /\ Truthy(cache.payload)
        /\ pc[q] = "l31" /\ fetchCalls[q] = 1
        /\ now[q] >= cache.ts + CACHE_TTL


----------------------------------------------------------------------------
\* C18.  The cache is replaced as soon as the fetch succeeds, before
\* aggregation and level computation run: if a later step of the same request
\* raises, the newly fetched snapshot stays in the cache, and every request
\* within its TTL window reuses that snapshot without contacting the
\* upstream.  As stated, for the reuse: a read that finds in the cache a
\* snapshot on which the computation raises, inside the TTL window of that
\* snapshot, goes on to the freshness test instead of fetching.
C18_RaisedSnapshotReused ==
    [][\A r \in Workers :
          (/\ Leaves(r, "l44a")
           /\ Populated
           /\ ~ChainCompletes(cache.payload.list)
           /\ InWindow(now[r])) => pc'[r] = "l44b"]_vars

\* What lines 44-68 do guarantee: the records of a request that has fetched
\* are in the cache (line 48) before its computation runs, and line 49 with
\* the computation after it, raising or not, leaves them there; a later read
\* that finds in the cache a non-empty snapshot on which the computation
\* raises, with a timestamp less than CACHE_TTL before its own time, is
\* answered from the cache with no upstream call (and raises again); an
\* empty snapshot, on which only the division by LEVEL_XP = 0 can raise, is
\* fetched again by the next read.
C18_StoredBeforeCompute ==
    [][\A r \in Workers :
         /\ (pc[r] = "l31" /\ pc'[r] = "l49") =>
               cache'.payload = ListPayload(results'[r])
         /\ Leaves(r, "l49") =>
               /\ fetchCalls[r] = 1
               /\ cache'.ts = now[r] /\ cache'.payload = cache.payload
               /\ ~ChainCompletes(results[r]) => resp'[r].status = 500
         /\ (Leaves(r, "l44a") /\ ~ChainCompletes(cache.payload.list)) =>
               IF Truthy(cache.payload) THEN pc'[r] = "l44b" ELSE pc'[r] = "l31"
         /\ (/\ Leaves(r, "l44b")
             /\ ~ChainCompletes(cache.payload.list)
             /\ now[r] - cache.ts < CACHE_TTL) => pc'[r] = "l45"
         /\ (Leaves(r, "l45") /\ ~ChainCompletes(cache.payload.list)) =>
               /\ pc'[r] = "done"
               /\ resp'[r].status = 500
               /\ fetchCalls'[r] = 0 /\ posts'[r] = 0
               /\ cache' = cache]_vars

\* A request has been answered the error page, without any upstream call,
\* from a snapshot on which the computation raises: an earlier request
\* fetched it and stored it.
C18_Witness ==
    \E r \in Workers :
        /\ pc[r] = "done" /\ fetchCalls[r] = 0
        /\ resp[r].status = 500
        /\ resp[r].msg \in {"AttributeError", "TypeError", "ZeroDivisionError"}
        /\ Truthy(cache.payload)
        /\ ~ChainCompletes(cache.payload.list)


----------------------------------------------------------------------------
\* C14.  Within one fetch the first query request carries no cursor, every
\* later request carries the continuation cursor of the immediately preceding
\* response, no request is issued after the first response whose has_more is
\* false or whose next_cursor is absent (every response but the last asked
\* for another request), and the returned collection is the concatenation, in
\* request order, of the results of exactly those responses.
RECURSIVE PagesOf(_)
PagesOf(w) ==
    IF w = <<>> THEN <<>>
    ELSE PagesOf(SubSeq(w, 1, Len(w) - 1)) \o w[Len(w)].rsp.results

C14_Pagination ==
    /\ wire # <<>> => wire[1].sent = NoCursor
    /\ \A i \in 2..Len(wire) :
          /\ Continues(wire[i - 1].rsp)
          /\ wire[i].sent = wire[i - 1].rsp.next_cursor
    /\ fetch.state = "loop" => (wire = <<>> \/ Continues(wire[Len(wire)].rsp))
    /\ fetch.state = "returned" =>
          /\ wire # <<>>
          /\ wire[Len(wire)].rsp.ok
          /\ ~Continues(wire[Len(wire)].rsp)
          /\ fetch.results = PagesOf(wire)

\* A fetch of three requests has returned: the second and the third carried
\* different cursors, and records came with more than one response.
C14_Witness ==
    /\ fetch.state = "returned"
    /\ Len(wire) = 3
    /\ wire[2].sent # wire[3].sent
    /\ wire[1].rsp.results # <<>>
    /\ wire[3].rsp.results # <<>>
    /\ wire[1].rsp.results # wire[3].rsp.results

----------------------------------------------------------------------------
\* C15.  There is no retry: once a request of a fetch fails, whatever the
\* exception, the fetch has raised that exception, nothing of the pages
\* already received is left, and the fetch issues no further request; a
\* fetch that has raised has the failure as its last exchange.
C15_NoRetry ==
    [][/\ (wire' # wire /\ ~wire'[Len(wire')].rsp.ok) =>
             /\ fetch'.state = "raised"
             /\ fetch'.raised = wire'[Len(wire')].rsp.fault
             /\ fetch'.raised \in FetchFaults
             /\ fetch'.results = <<>>
       /\ fetch.state = "raised" => (wire' = wire /\ fetch' = fetch)
       /\ fetch'.state = "raised" =>
             (wire' # <<>> /\ ~wire'[Len(wire')].rsp.ok)]_vars

\* A fetch has raised on its third request after two pages with records.
C15_Witness ==
    /\ fetch.state = "raised"
    /\ fetch.raised = "ReadTimeout"
    /\ Len(wire) = 3
    /\ wire[1].rsp.results # <<>>
    /\ wire[2].rsp.results # <<>>
    /\ fetch.results = <<>>

----------------------------------------------------------------------------
\* C16.  The fetch of a GET / ends, returning or raising, provided each
\* upstream request returns and the upstream eventually answers with
\* has_more false or no next_cursor; the loop has no other exit: against an
\* upstream that keeps answering has_more true with a cursor, even a repeated
\* one, the fetch stays in the loop for ever.
C16_EndsOnFinalAnswerOnly ==
    /\ (upstream = "answers") ~> (fetch.state \in {"returned", "raised"})
    /\ [](upstream = "endless" => fetch.state = "loop")

\* Against the endless upstream the fetch has accumulated MaxFetched records,
\* one page after the other, holds the cursor of the last response, and is
\* still in the loop.
C16_Witness ==
    /\ upstream = "endless"
    /\ fetch.state = "loop"
    /\ Len(fetch.results) = MaxFetched
    /\ fetch.start_cursor # NoCursor

============================================================================
